---------------------------- MODULE Spec2Model ----------------------------
(***************************************************************************)
(* Model of job_monitor.py: the JobSiteScraper (seen-job store, job id,    *)
(* keyword filter, per-site searches, search_all_sites) and main().        *)
(*                                                                         *)
(* A Python str is a sequence of one-character strings.  A URL value is    *)
(* kept in parsed form [path, query, frag]; the str the program holds is   *)
(* UrlString(url).  Host prefixes of URLs are kept as one element.         *)
(* hashlib.md5 is taken to be collision free: a digest is represented by   *)
(* the string that was hashed.                                             *)
(***************************************************************************)
EXTENDS Integers, Sequences, FiniteSets, TLC

\* ------------------------------------------------------------------ bounds
MaxListing == 2
MaxDay == 2
SeenTTLDays == 1
SeenMaxSize == 2
MaxJobs == 21

\* ----------------------------------------------------------------- strings
UpperCase ==
  <<"A","B","C","D","E","F","G","H","I","J","K","L","M",
    "N","O","P","Q","R","S","T","U","V","W","X","Y","Z">>

LowerCase ==
  <<"a","b","c","d","e","f","g","h","i","j","k","l","m",
    "n","o","p","q","r","s","t","u","v","w","x","y","z">>

Digits == {"0","1","2","3","4","5","6","7","8","9"}

ToLower(c) ==
  IF \E i \in 1..26 : UpperCase[i] = c
  THEN LowerCase[CHOOSE i \in 1..26 : UpperCase[i] = c]
  ELSE c

\* str.lower()
Lower(s) == [i \in 1..Len(s) |-> ToLower(s[i])]

\* sub in s
Contains(sub, s) ==
  \E i \in 0..(Len(s) - Len(sub)) : SubSeq(s, i + 1, i + Len(sub)) = sub

Range(f) == {f[i] : i \in DOMAIN f}

Min(a, b) == IF a < b THEN a ELSE b

RECURSIVE Join(_, _)
\* sep.join(parts)
Join(parts, sep) ==
  IF parts = <<>> THEN <<>>
  ELSE IF Len(parts) = 1 THEN parts[1]
  ELSE parts[1] \o sep \o Join(Tail(parts), sep)

\* -------------------------------------------------------------------- URLs
EmptyUrl == [path |-> <<>>, query |-> <<>>, frag |-> <<>>]

QueryString(q) == Join([i \in 1..Len(q) |-> q[i].k \o <<"=">> \o q[i].v], <<"&">>)

\* the str value of a URL
UrlString(u) ==
  u.path
  \o (IF u.query = <<>> THEN <<>> ELSE <<"?">> \o QueryString(u.query))
  \o (IF u.frag = <<>> THEN <<>> ELSE <<"#">> \o u.frag)

\* urljoin(base, href) for a host-only base and an absolute-path href
urljoin(base, href) == [href EXCEPT !.path = <<base>> \o href.path]

\* ------------------------------------------------------- JobSiteScraper
\* hashlib.md5(f"{title}|{company}|{url}")
generate_job_id(title, company, url) ==
  title \o <<"|">> \o company \o <<"|">> \o UrlString(url)

\* every text is taken to match
matches_always(text, kws) == TRUE

\* any(kw.lower() in text_lower for kw in keywords)
matches_keywords(text, kws) ==
  \E i \in 1..Len(kws) : Contains(Lower(kws[i]), Lower(text))

\* the test of line 71 left out: every record counts as new
NotSeenAlways(job_id, seen) == TRUE

\* line 71: job_id not in self.seen_jobs
NotSeen(job_id, seen) == job_id \notin seen

JobId(job) == generate_job_id(job.title, job.company, job.url)

\* add_job_if_new: the list and the set after the call
add_job_if_new_list(job, jobs_list, seen) ==
  IF NotSeen(JobId(job), seen) THEN Append(jobs_list, job) ELSE jobs_list

add_job_if_new_seen(job, seen) ==
  IF NotSeen(JobId(job), seen) THEN seen \cup {JobId(job)} ELSE seen

\* ------------------------------------------------------------------ sites
\* search_all_sites calls sixteen site searches one after the other.  Three
\* are modelled, one of each shape: a JSON list matched on title and tags
\* (RemoteOK), a JSON object whose url is taken as is and whose loop has no
\* try of its own (Remotive), and an HTML page with a try around every item
\* (WorkInStartups, which stands for the thirteen HTML sites; its url may be
\* '' and its call is itself wrapped in a try, as is HiringCafe's).
SiteOrder == <<"RemoteOK", "Remotive", "WorkInStartups">>

Sites == Range(SiteOrder)

SiteIndex(s) == CHOOSE i \in 1..Len(SiteOrder) : SiteOrder[i] = s

RemoteOKLimit == 50
RemotiveLimit == 30
WorkInStartupsLimit == 20

\* data[:50], job_list[:30], job_listings[:20]
SliceLimit(s) ==
  CASE s = "RemoteOK" -> RemoteOKLimit
    [] s = "Remotive" -> RemotiveLimit
    [] OTHER -> WorkInStartupsLimit

\* the try around the call in search_all_sites
WrappedInTry(s) == s = "WorkInStartups"

\* a site search without its try/except
CaughtNever(s) == FALSE

\* the try/except Exception around the body of every search_<site>
Caught(s) == TRUE

\* ----------------------------------------------------------------- inputs
GoDev == <<"G","o"," ","D","e","v">>
godev == <<"g","o"," ","d","e","v">>
Going == <<"G","o","i","n","g">>
Acme == <<"A","c","m","e">>
go == <<"g","o">>
Dev == <<"D","e","v">>
ref == <<"r","e","f">>

Url(p, q) == [path |-> p, query |-> q, frag |-> <<>>]

\* An item of a payload as the site search reads it: wf is FALSE for an
\* item the extraction code raises on (not a dict, an element without the
\* attribute read); link is FALSE when no <a href> is found.
Item(wf, title, tags, company, href, link) ==
  [wf |-> wf, title |-> title, tags |-> tags, company |-> company,
   href |-> href, link |-> link]

BadItem == Item(FALSE, <<>>, <<>>, <<>>, EmptyUrl, FALSE)

ItemPool(s) ==
  CASE s = "RemoteOK" ->
         { Item(TRUE, <<>>, go, Acme, Url(<<"j">>, <<>>), TRUE), BadItem }
    [] s = "Remotive" ->
         { Item(TRUE, GoDev, <<>>, Acme,
                Url(<<"m/j">>, <<[k |-> ref, v |-> <<"a">>]>>), TRUE),
           Item(TRUE, GoDev, <<>>, Acme,
                Url(<<"m/j">>, <<[k |-> ref, v |-> <<"b">>]>>), TRUE),
           Item(TRUE, godev, <<>>, Acme,
                Url(<<"m/j">>, <<[k |-> ref, v |-> <<"a">>]>>), TRUE),
           BadItem }
    [] OTHER ->
         { Item(TRUE, Going, <<>>, Acme, EmptyUrl, FALSE), BadItem }

\* the number of items a payload holds
ListingLengths == 0..MaxListing

KeywordSets == {<<go>>, <<Dev>>}

\* status 0 stands for requests.get raising (timeout, transport error)
StatusScripts == {<<200>>, <<503, 503, 200>>, <<404>>, <<0>>}

\* --------------------------------------------------- per-item extraction
Job(title, company, url, source) ==
  [title |-> title, company |-> company, url |-> url, source |-> source]

NoJob == Job(<<>>, <<>>, EmptyUrl, "")

Skip == [kind |-> "skip", job |-> NoJob]
NoMatch == [kind |-> "nomatch", job |-> NoJob]
Raise == [kind |-> "raise", job |-> NoJob]
Found(j) == [kind |-> "job", job |-> j]

\* The body of the for loop of search_<site> up to the call of
\* add_job_if_new: skip (continue), nomatch (matches_keywords is False),
\* raise (an exception leaves the loop) or the job_data handed to
\* add_job_if_new.
Extract(s, it, kws) ==
  CASE s = "RemoteOK" ->
         IF ~it.wf THEN Skip
         ELSE IF matches_keywords(it.title \o <<" ">> \o it.tags, kws)
         THEN Found(Job(it.title, it.company,
                        [it.href EXCEPT !.path = <<"remoteok.com/remote-jobs/">> \o @],
                        s))
         ELSE NoMatch
    [] s = "Remotive" ->
         IF ~it.wf THEN Raise
         ELSE IF matches_keywords(it.title, kws)
         THEN Found(Job(it.title, it.company, it.href, s))
         ELSE NoMatch
    [] OTHER ->
         IF ~it.wf THEN Skip
         ELSE IF matches_keywords(it.title, kws)
         THEN Found(Job(it.title, <<"S","t","a","r","t","u","p">>,
                        IF it.link THEN urljoin("workinstartups.com", it.href)
                        ELSE EmptyUrl, s))
         ELSE NoMatch

\* ------------------------------------------------------------------ state
\* Program state: seen_jobs_file, seen_jobs, keywords, jobs, all_jobs, and
\* the control state run_pc, spc, listing, cursor.  The environment: target
\* (what a site answers) and now.  Observations of the run, which no
\* action reads: attempts, last_add, outcome, any_found, first_seen,
\* load_result, save_result, notified.
VARIABLES
  seen_jobs_file,  \* the file seen_jobs.json: [state, ids]
  seen_jobs,       \* self.seen_jobs
  keywords,        \* SEARCH_KEYWORDS
  run_pc,          \* main(): start, searching, saved, notified, exit, crashed
  now,             \* the day
  first_seen,      \* job id in seen_jobs -> the day add_job_if_new added it
  spc,             \* site -> todo, request, loop, return, done, raised
  target,          \* site -> the statuses the site answers with, in order
  attempts,        \* site -> calls of requests.get made in this run
  listing,         \* site -> length of the slice the for loop iterates over
  cursor,          \* site -> index of the next item; the item is read then
  last_add,        \* the last item of the loop: new, seen (add_job_if_new), nomatch
  jobs,            \* site -> the local list jobs of search_<site>
  outcome,         \* site -> how the search ended: found, nothing, error, fault
  any_found,       \* some search of this run printed "Found n new jobs"
  all_jobs,        \* all_jobs of search_all_sites, new_jobs of main
  load_result,     \* the branch load_seen_jobs took: list, missing, corrupt
  save_result,     \* what save_seen_jobs printed: saved, error
  notified,        \* what the notification of main came to: sent, failed, skipped
  tg_pc,           \* send_telegram_notification: idle, call, loop, returned
  tg_jobs,         \* its argument jobs, the jobs numbered in list order
  tg_token,        \* TELEGRAM_BOT_TOKEN is set
  tg_chat_id,      \* TELEGRAM_CHAT_ID is set
  tg_i,            \* i of the for loop
  tg_posts,        \* the calls of requests.post made: [chunk, status]
  tg_result        \* the value returned

vars ==
  <<seen_jobs_file, seen_jobs, keywords, run_pc, now, first_seen, spc,
    target, attempts, listing, cursor, last_add, jobs, outcome, any_found,
    all_jobs, load_result, save_result, notified,
    tg_pc, tg_jobs, tg_token, tg_chat_id, tg_i, tg_posts, tg_result>>

mainVars == <<load_result, save_result, notified>>

tgVars == <<tg_pc, tg_jobs, tg_token, tg_chat_id, tg_i, tg_posts, tg_result>>

scraperVars ==
  <<seen_jobs_file, seen_jobs, keywords, run_pc, now, first_seen, spc,
    target, attempts, listing, cursor, last_add, jobs, outcome, any_found,
    all_jobs, load_result, save_result, notified>>

siteVars == <<spc, target, attempts, listing, cursor, last_add, jobs, outcome>>

FileMissing == [state |-> "missing", ids |-> {}]
FileCorrupt == [state |-> "corrupt", ids |-> {}]
FileList(ids) == [state |-> "list", ids |-> ids]

NoFirstSeen == [id \in {} |-> 0]

\* requests.post of send_telegram_notification: 0 stands for an exception
TelegramStatuses == {200, 400, 0}

\* chunk_size = 10
chunk_size == 10

TypeOK ==
  /\ seen_jobs_file.state \in {"missing", "corrupt", "list"}
  /\ seen_jobs_file.state # "list" => seen_jobs_file.ids = {}
  /\ \A id \in seen_jobs \cup seen_jobs_file.ids : id \in Seq(STRING)
  /\ keywords \in KeywordSets \cup {<<>>}
  /\ run_pc \in {"start", "searching", "saved", "notified", "exit", "crashed"}
  /\ load_result \in {"none", "list", "missing", "corrupt"}
  /\ save_result \in {"none", "saved", "error"}
  /\ notified \in {"none", "sent", "failed", "skipped"}
  /\ tg_pc \in {"idle", "call", "loop", "returned"}
  /\ tg_jobs \in {[k \in 1..n |-> k] : n \in 0..MaxJobs}
  /\ tg_token \in BOOLEAN
  /\ tg_chat_id \in BOOLEAN
  /\ tg_i \in 0..(MaxJobs + chunk_size)
  /\ \A k \in 1..Len(tg_posts) : tg_posts[k].status \in TelegramStatuses
  /\ tg_result \in {"none", "True", "False"}
  /\ now \in 0..MaxDay
  /\ DOMAIN first_seen = seen_jobs \/ run_pc \in {"start", "exit"}
  /\ \A id \in DOMAIN first_seen : first_seen[id] \in 0..now
  /\ \A s \in Sites :
       /\ spc[s] \in {"todo", "request", "loop", "return", "done", "raised"}
       /\ target[s] \in StatusScripts \cup {<<>>}
       /\ attempts[s] \in 0..1
       /\ listing[s] \in ListingLengths
       /\ cursor[s] \in 1..(listing[s] + 1)
       /\ Len(jobs[s]) <= listing[s]
       /\ outcome[s] \in {"none", "found", "nothing", "error", "fault", "skipped", "raised"}
  /\ last_add \in {"none", "new", "seen", "nomatch"}
  /\ any_found \in BOOLEAN
  /\ \A i \in 1..Len(all_jobs) : all_jobs[i].source \in Sites

InitScraper ==
  /\ seen_jobs_file \in {FileMissing, FileCorrupt}
  /\ seen_jobs = {}
  /\ keywords = <<>>
  /\ run_pc = "start"
  /\ now = 0
  /\ first_seen = NoFirstSeen
  /\ spc = [s \in Sites |-> "todo"]
  /\ target = [s \in Sites |-> <<>>]
  /\ attempts = [s \in Sites |-> 0]
  /\ listing = [s \in Sites |-> 0]
  /\ last_add = "none"
  /\ cursor = [s \in Sites |-> 1]
  /\ jobs = [s \in Sites |-> <<>>]
  /\ outcome = [s \in Sites |-> "none"]
  /\ any_found = FALSE
  /\ all_jobs = <<>>
  /\ load_result = "none"
  /\ save_result = "none"
  /\ notified = "none"

Init ==
  /\ InitScraper
  /\ tg_pc = "idle"
  /\ tg_jobs = <<>>
  /\ tg_token = FALSE
  /\ tg_chat_id = FALSE
  /\ tg_i = 0
  /\ tg_posts = <<>>
  /\ tg_result = "none"

\* ---------------------------------------------------------- seen-job file
\* load_seen_jobs: set(json.load(f)); set() when the file is missing or
\* when reading it raises
load_seen_jobs(file) == IF file.state = "list" THEN file.ids ELSE {}

\* the file is written back as it was read: nothing of the run is kept
save_seen_jobs_as_read(file, seen, written) ==
  IF written THEN FileList(file.ids) ELSE file

\* a file that could not be read is not written over
save_seen_jobs_if_read(file, seen, written) ==
  IF written /\ file.state = "list" THEN FileList(seen) ELSE file

\* save_seen_jobs: json.dump(list(self.seen_jobs), f); an exception of
\* open() is caught and leaves the file as it was
save_seen_jobs(file, seen, written) == IF written THEN FileList(seen) ELSE file

\* ------------------------------------------------------------------ main
\* main(): scraper = JobSiteScraper(), which loads the seen jobs; the
\* keywords are those of the environment of this run
Construct ==
  /\ run_pc = "start"
  /\ seen_jobs' = load_seen_jobs(seen_jobs_file)
  /\ \E kws \in KeywordSets : keywords' = kws
  /\ first_seen' = [id \in seen_jobs' |-> first_seen[id]]
  /\ load_result' = seen_jobs_file.state
  /\ run_pc' = "searching"
  /\ UNCHANGED <<tgVars, save_result, notified, seen_jobs_file, now, siteVars, all_jobs, any_found>>

\* ------------------------------------------------------- search_<site>
\* the searches started all at once
MayStartAny(s) == TRUE

\* search_all_sites calls the searches in order, each after the one
\* before it has returned
MayStart(s) == \A i \in 1..(SiteIndex(s) - 1) : spc[SiteOrder[i]] = "done"

\* search_<site> is called and issues requests.get
Call(s) ==
  /\ run_pc = "searching"
  /\ spc[s] = "todo"
  /\ MayStart(s)
  /\ \E sc \in StatusScripts : target' = [target EXCEPT ![s] = sc]
  /\ attempts' = [attempts EXCEPT ![s] = @ + 1]
  /\ jobs' = [jobs EXCEPT ![s] = <<>>]
  /\ spc' = [spc EXCEPT ![s] = "request"]
  /\ UNCHANGED <<tgVars, mainVars, seen_jobs_file, seen_jobs, keywords, run_pc, now,
                 first_seen, listing, cursor, last_add, outcome, all_jobs, any_found>>

Status(s) == target[s][attempts[s]]

\* any answer at all is taken for a listing
StatusOKAny(status) == status # 0

\* if response.status_code == 200
StatusOK(status) == status = 200

\* An exception raised in the body of search_<site>: the except clause
\* prints and the function goes on to return jobs.  (Were it not caught, the
\* try in search_all_sites would skip the site, or the run would end.)
Except(s, oc) ==
  /\ spc' = [spc EXCEPT ![s] = IF Caught(s) THEN "return"
                               ELSE IF WrappedInTry(s) THEN "done"
                               ELSE "raised"]
  /\ outcome' = [outcome EXCEPT ![s] = IF Caught(s) THEN oc
                                       ELSE IF WrappedInTry(s) THEN "skipped"
                                       ELSE "raised"]
  /\ run_pc' = IF Caught(s) \/ WrappedInTry(s) THEN run_pc ELSE "crashed"

\* requests.get raises, or the status is 200 and parsing the body raises
RespondRaise(s) ==
  /\ run_pc = "searching"
  /\ spc[s] = "request"
  /\ Status(s) = 0 \/ StatusOK(Status(s))
  /\ Except(s, "error")
  /\ UNCHANGED <<tgVars, mainVars, seen_jobs_file, seen_jobs, keywords, now, first_seen,
                 target, attempts, listing, cursor, last_add, jobs, all_jobs, any_found>>

\* response.status_code is not 200: nothing is done
RespondStatus(s) ==
  /\ run_pc = "searching"
  /\ spc[s] = "request"
  /\ Status(s) # 0
  /\ ~StatusOK(Status(s))
  /\ spc' = [spc EXCEPT ![s] = "return"]
  /\ outcome' = [outcome EXCEPT ![s] = "nothing"]
  /\ UNCHANGED <<tgVars, mainVars, seen_jobs_file, seen_jobs, keywords, run_pc, now,
                 first_seen, target, attempts, listing, cursor, last_add, jobs, all_jobs, any_found>>

\* status 200 and a body that parses: the for loop starts on the slice
RespondOK(s) ==
  /\ run_pc = "searching"
  /\ spc[s] = "request"
  /\ StatusOK(Status(s))
  /\ \E n \in ListingLengths :
       listing' = [listing EXCEPT ![s] = Min(n, SliceLimit(s))]
  /\ cursor' = [cursor EXCEPT ![s] = 1]
  /\ spc' = [spc EXCEPT ![s] = "loop"]
  /\ UNCHANGED <<tgVars, mainVars, seen_jobs_file, seen_jobs, keywords, run_pc, now, first_seen,
                 target, attempts, last_add, jobs, outcome, all_jobs, any_found>>

\* one iteration of the for loop, on item it, that does not raise
ItemStep(s) ==
  /\ run_pc = "searching"
  /\ spc[s] = "loop"
  /\ cursor[s] <= listing[s]
  /\ \E it \in ItemPool(s) :
       LET e == Extract(s, it, keywords) IN
       /\ e.kind # "raise"
       /\ IF e.kind = "job"
          THEN /\ jobs' = [jobs EXCEPT ![s] = add_job_if_new_list(e.job, @, seen_jobs)]
               /\ seen_jobs' = add_job_if_new_seen(e.job, seen_jobs)
               /\ last_add' = IF jobs'[s] = jobs[s] THEN "seen" ELSE "new"
               /\ first_seen' =
                    IF seen_jobs' = seen_jobs THEN first_seen
                    ELSE [id \in seen_jobs' |->
                            IF id \in seen_jobs THEN first_seen[id] ELSE now]
          ELSE /\ last_add' = IF e.kind = "nomatch" THEN "nomatch" ELSE last_add
               /\ UNCHANGED <<jobs, seen_jobs, first_seen>>
  /\ cursor' = [cursor EXCEPT ![s] = @ + 1]
  /\ UNCHANGED <<tgVars, mainVars, seen_jobs_file, keywords, run_pc, now, spc, target, attempts,
                 listing, outcome, all_jobs, any_found>>

\* an iteration raises past the loop
ItemRaise(s) ==
  /\ run_pc = "searching"
  /\ spc[s] = "loop"
  /\ cursor[s] <= listing[s]
  /\ \E it \in ItemPool(s) : Extract(s, it, keywords).kind = "raise"
  /\ Except(s, "fault")
  /\ UNCHANGED <<tgVars, mainVars, seen_jobs_file, seen_jobs, keywords, now, first_seen, target,
                 attempts, listing, cursor, last_add, jobs, all_jobs, any_found>>

\* the loop is over: print "Found n new jobs"
LoopEnd(s) ==
  /\ run_pc = "searching"
  /\ spc[s] = "loop"
  /\ cursor[s] > listing[s]
  /\ spc' = [spc EXCEPT ![s] = "return"]
  /\ outcome' = [outcome EXCEPT ![s] = "found"]
  /\ any_found' = TRUE
  /\ UNCHANGED <<tgVars, mainVars, seen_jobs_file, seen_jobs, keywords, run_pc, now,
                 first_seen, target, attempts, listing, cursor, last_add, jobs, all_jobs>>

\* return jobs placed at the end of the try block: after an exception
\* the search returns nothing
ReturnedIfFound(s) == IF outcome[s] = "found" THEN jobs[s] ELSE <<>>

\* return jobs, the last statement of search_<site>, after the except clause
Returned(s) == jobs[s]

\* return jobs, and all_jobs.extend(...) in search_all_sites
Return(s) ==
  /\ run_pc = "searching"
  /\ spc[s] = "return"
  /\ all_jobs' = all_jobs \o Returned(s)
  /\ spc' = [spc EXCEPT ![s] = "done"]
  /\ target' = [target EXCEPT ![s] = <<>>]
  /\ listing' = [listing EXCEPT ![s] = 0]
  /\ last_add' = "none"
  /\ cursor' = [cursor EXCEPT ![s] = 1]
  /\ jobs' = [jobs EXCEPT ![s] = <<>>]
  /\ outcome' = [outcome EXCEPT ![s] = "none"]
  /\ UNCHANGED <<tgVars, mainVars, seen_jobs_file, seen_jobs, keywords, run_pc, now,
                 first_seen, attempts, any_found>>

\* the end of search_all_sites: self.save_seen_jobs(); return all_jobs
Save ==
  /\ run_pc = "searching"
  /\ \A s \in Sites : spc[s] = "done"
  /\ \E written \in BOOLEAN :
       /\ seen_jobs_file' = save_seen_jobs(seen_jobs_file, seen_jobs, written)
       /\ save_result' = IF written THEN "saved" ELSE "error"
  /\ run_pc' = "saved"
  /\ UNCHANGED <<tgVars, load_result, notified, seen_jobs, keywords, now, first_seen,
                 siteVars, all_jobs, any_found>>

\* main(), if new_jobs: the notification of NOTIFICATION_METHOD is sent, or
\* fails (a status other than 200, an exception), or is skipped (no valid
\* method, no token or password)
Notify ==
  /\ run_pc = "saved"
  /\ all_jobs # <<>>
  /\ \E r \in {"sent", "failed", "skipped"} : notified' = r
  /\ run_pc' = "notified"
  /\ UNCHANGED <<tgVars, load_result, save_result, seen_jobs_file, seen_jobs, keywords, now,
                 first_seen, siteVars, all_jobs, any_found>>

\* main() prints its summary and the process ends
MainExit ==
  /\ \/ run_pc = "notified"
     \/ run_pc = "saved" /\ all_jobs = <<>>
  /\ run_pc' = "exit"
  /\ load_result' = "none"
  /\ save_result' = "none"
  /\ notified' = "none"
  /\ UNCHANGED <<tgVars, seen_jobs_file, seen_jobs, keywords, now, first_seen,
                 siteVars, all_jobs, any_found>>

\* between two runs the file is lost, or left unreadable
FileLost ==
  /\ run_pc = "exit"
  /\ seen_jobs_file.state = "list"
  /\ seen_jobs_file' \in {FileMissing, FileCorrupt}
  /\ first_seen' = NoFirstSeen
  /\ UNCHANGED <<tgVars, mainVars, seen_jobs, keywords, run_pc, now, siteVars, all_jobs, any_found>>

\* the next scheduled run: a new process, the file is what is left
NextRun ==
  /\ run_pc = "exit"
  /\ run_pc' = "start"
  /\ seen_jobs' = {}
  /\ keywords' = <<>>
  /\ spc' = [s \in Sites |-> "todo"]
  /\ target' = [s \in Sites |-> <<>>]
  /\ attempts' = [s \in Sites |-> 0]
  /\ listing' = [s \in Sites |-> 0]
  /\ last_add' = "none"
  /\ cursor' = [s \in Sites |-> 1]
  /\ jobs' = [s \in Sites |-> <<>>]
  /\ outcome' = [s \in Sites |-> "none"]
  /\ any_found' = FALSE
  /\ all_jobs' = <<>>
  /\ UNCHANGED <<tgVars, mainVars, seen_jobs_file, now, first_seen>>

\* a day passes between two runs
Tick ==
  /\ run_pc = "exit"
  /\ now < MaxDay
  /\ now' = now + 1
  /\ UNCHANGED <<tgVars, mainVars, seen_jobs_file, seen_jobs, keywords, run_pc, first_seen,
                 siteVars, all_jobs, any_found>>

Next ==
  \/ Construct
  \/ \E s \in Sites : Call(s)
  \/ \E s \in Sites : RespondRaise(s)
  \/ \E s \in Sites : RespondStatus(s)
  \/ \E s \in Sites : RespondOK(s)
  \/ \E s \in Sites : ItemStep(s)
  \/ \E s \in Sites : ItemRaise(s)
  \/ \E s \in Sites : LoopEnd(s)
  \/ \E s \in Sites : Return(s)
  \/ Save
  \/ Notify
  \/ MainExit
  \/ FileLost
  \/ NextRun

Spec == Init /\ [][Next]_vars

\* the same runs, with days passing between them
NextAging == Next \/ Tick

SpecAging == Init /\ [][NextAging]_vars

\* ------------------------------------------ send_telegram_notification
\* send_telegram_notification(jobs) is called with a list of jobs, with or
\* without the token and the chat id
InitTelegram ==
  /\ InitScraper
  /\ seen_jobs_file = FileMissing
  /\ tg_pc = "call"
  /\ \E n \in 0..MaxJobs : tg_jobs = [k \in 1..n |-> k]
  /\ tg_token \in BOOLEAN
  /\ tg_chat_id \in BOOLEAN
  /\ tg_i = 0
  /\ tg_posts = <<>>
  /\ tg_result = "none"

\* the slice taken one job too long
ChunkInclusive(js, i) == SubSeq(js, i + 1, Min(i + chunk_size + 1, Len(js)))

\* chunk = jobs[i:i+chunk_size]
Chunk(js, i) == SubSeq(js, i + 1, Min(i + chunk_size, Len(js)))

\* if not jobs or not TELEGRAM_BOT_TOKEN or not TELEGRAM_CHAT_ID: return False
TelegramGuard ==
  /\ tg_pc = "call"
  /\ IF tg_jobs = <<>> \/ ~tg_token \/ ~tg_chat_id
     THEN tg_pc' = "returned" /\ tg_result' = "False"
     ELSE tg_pc' = "loop" /\ tg_result' = tg_result
  /\ UNCHANGED <<scraperVars, tg_jobs, tg_token, tg_chat_id, tg_i, tg_posts>>

\* one iteration of for i in range(0, len(jobs), chunk_size): the chunk is
\* posted; a status other than 200 returns False, an exception of
\* requests.post is caught and returns False
TelegramPost ==
  /\ tg_pc = "loop"
  /\ tg_i < Len(tg_jobs)
  /\ \E status \in TelegramStatuses :
       /\ tg_posts' = Append(tg_posts, [chunk |-> Chunk(tg_jobs, tg_i), status |-> status])
       /\ IF status = 200
          THEN /\ tg_i' = tg_i + chunk_size
               /\ UNCHANGED <<tg_pc, tg_result>>
          ELSE /\ tg_pc' = "returned"
               /\ tg_result' = "False"
               /\ tg_i' = tg_i
  /\ UNCHANGED <<scraperVars, tg_jobs, tg_token, tg_chat_id>>

\* the loop is over: print "Telegram notification sent"; return True
TelegramSent ==
  /\ tg_pc = "loop"
  /\ tg_i >= Len(tg_jobs)
  /\ tg_pc' = "returned"
  /\ tg_result' = "True"
  /\ UNCHANGED <<scraperVars, tg_jobs, tg_token, tg_chat_id, tg_i, tg_posts>>

NextTelegram ==
  \/ TelegramGuard
  \/ TelegramPost
  \/ TelegramSent

SpecTelegram == InitTelegram /\ [][NextTelegram]_vars

\* ================================================================ claims
\* the records reported so far in this run, in order
RunOutput == all_jobs \o jobs[SiteOrder[1]] \o jobs[SiteOrder[2]] \o jobs[SiteOrder[3]]

\* the job_data a site search can hand to add_job_if_new
CandidateJobs ==
  { Extract(s, it, kws).job :
      <<s, it, kws>> \in { x \in UNION { {s2} \X ItemPool(s2) \X KeywordSets : s2 \in Sites } :
                            Extract(x[1], x[2], x[3]).kind = "job" } }

\* C1: a record whose fingerprint is already in the Seen-Set is not placed
\* in the output, within a run and after a save and a load: a step adds a
\* record to a site's list only if its fingerprint was not in seen_jobs;
\* the records reported in a run have pairwise different fingerprints, all
\* of them in seen_jobs.
C1_SeenNotReported ==
  /\ [][\A s \in Sites :
          \A k \in (Len(jobs[s]) + 1)..Len(jobs'[s]) :
            JobId(jobs'[s][k]) \notin seen_jobs]_vars
  /\ [](/\ \A i, j \in 1..Len(RunOutput) :
             i # j => JobId(RunOutput[i]) # JobId(RunOutput[j])
        /\ \A i \in 1..Len(RunOutput) : JobId(RunOutput[i]) \in seen_jobs)

\* add_job_if_new returned False for a record whose fingerprint was loaded
\* from the file an earlier run saved; nothing was added in this run
C1_Witness ==
  /\ last_add = "seen"
  /\ seen_jobs_file.state = "list"
  /\ seen_jobs = seen_jobs_file.ids
  /\ RunOutput = <<>>

\* ---- URL normalisation as the specification describes it
utm == <<"u","t","m","_">>

IsTracking(k) ==
  \/ k \in { ref, <<"s","o","u","r","c","e">>, <<"f","b","c","l","i","d">>,
             <<"g","c","l","i","d">> }
  \/ (Len(k) >= 4 /\ SubSeq(k, 1, 4) = utm)

NormalizeUrl(u) ==
  [path |-> u.path,
   query |-> SelectSeq(u.query, LAMBDA e : ~IsTracking(e.k)),
   frag |-> <<>>]

\* C2: two records with the same title, the same company and URLs equal
\* after stripping the fragment and the tracking parameters have the same
\* fingerprint, so only the first is reported: no two records reported in a
\* run have the same normalized identity.
C2_SameIdentityOnce ==
  \A i, j \in 1..Len(RunOutput) :
    (/\ i # j
     /\ RunOutput[i].title = RunOutput[j].title
     /\ RunOutput[i].company = RunOutput[j].company
     /\ NormalizeUrl(RunOutput[i].url) = NormalizeUrl(RunOutput[j].url))
    => FALSE

\* C3: the fingerprint is deterministic and does not depend on the letter
\* case of title and company: two candidate records that differ only in the
\* case of title or company have the same fingerprint (checked on the
\* records add_job_if_new was given and reported).
C3_CaseInsensitive ==
  \A i, j \in 1..Len(RunOutput) :
    (/\ Lower(RunOutput[i].title) = Lower(RunOutput[j].title)
     /\ Lower(RunOutput[i].company) = Lower(RunOutput[j].company)
     /\ RunOutput[i].url = RunOutput[j].url)
    => JobId(RunOutput[i]) = JobId(RunOutput[j])

IsWordChar(c) == ToLower(c) \in Range(LowerCase) \/ c \in Digits \/ c = "_"

\* kw occurs in text as a whole word, whatever the case (regex \bkw\b)
WholeWord(kw, text) ==
  \E i \in 0..(Len(text) - Len(kw)) :
    /\ SubSeq(Lower(text), i + 1, i + Len(kw)) = Lower(kw)
    /\ (i = 0 \/ ~IsWordChar(text[i]))
    /\ (i + Len(kw) = Len(text) \/ ~IsWordChar(text[i + Len(kw) + 1]))

\* C4: a title matches if and only if some configured keyword occurs in it
\* as a whole word, case-insensitively ("go" matches "Go Dev", not "Going").
C4_WholeWordMatch ==
  \A s \in Sites : \A it \in ItemPool(s) :
    matches_keywords(it.title, keywords)
      <=> \E i \in 1..Len(keywords) : WholeWord(keywords[i], it.title)

\* C5: a candidate whose title or URL is empty is neither reported nor
\* added to the Seen-Set.
C5_EmptyRejected ==
  \A j \in CandidateJobs :
    (j.title = <<>> \/ UrlString(j.url) = <<>>)
    => /\ JobId(j) \notin seen_jobs
       /\ \A i \in 1..Len(RunOutput) : RunOutput[i] # j

\* C6: a target that answers 503, 503, 200 is fetched with exactly three
\* network attempts and yields the payload of the 200.
C6_RetryOn503 ==
  \A s \in Sites :
    (spc[s] = "return" /\ target[s] = <<503, 503, 200>>)
    => (attempts[s] = 3 /\ outcome[s] = "found")

InFlight == {s \in Sites : spc[s] = "request"}

\* C7: at every instant at most L network calls are in flight, for every
\* limit L >= 1, and while one is in flight no other search has started
\* and not yet returned.
C7_BoundedInFlight ==
  /\ \A L \in 1..Len(SiteOrder) : Cardinality(InFlight) <= L
  /\ \A s \in InFlight : \A t \in Sites \ {s} : spc[t] \in {"todo", "done"}

\* one call in flight, a target behind it and a target waiting
C7_Witness ==
  /\ spc["RemoteOK"] = "done"
  /\ spc["Remotive"] = "request"
  /\ spc["WorkInStartups"] = "todo"

Age(id) == now - first_seen[id]

\* C9: after the prune of a save no entry older than the TTL is left.
C9_ExpiredPruned ==
  run_pc = "saved" => \A id \in seen_jobs : Age(id) <= SeenTTLDays

\* C10: after the prune of a save the Seen-Set holds min(N, live entries)
\* entries; save_seen_jobs removes nothing, so this is: at most N entries.
C10_SizeCapped ==
  run_pc = "saved" => Cardinality(seen_jobs) = Min(SeenMaxSize, Cardinality(seen_jobs))

\* C11: every save prunes before it persists: once save_seen_jobs has
\* written the file, the file holds no entry older than the TTL and no more
\* entries than the maximum.
C11_SavePrunes ==
  (run_pc \in {"saved", "notified"} /\ save_result = "saved") =>
    /\ Cardinality(seen_jobs_file.ids) <= SeenMaxSize
    /\ \A id \in seen_jobs_file.ids : Age(id) <= SeenTTLDays

\* the timestamps self.seen_jobs holds for a job id: it is a set of ids
\* and holds none
seen_timestamps(seen, id) == {}

\* C12: loading a file that is a bare list of fingerprints succeeds: after
\* the load every listed fingerprint is in the Seen-Set and carries the
\* time of the load as its timestamp.
C12_ListLoadedStamped ==
  (run_pc = "searching" /\ load_result = "list") =>
    \A id \in seen_jobs_file.ids :
      id \in seen_jobs /\ seen_timestamps(seen_jobs, id) = {now}

\* a step of the search of site s
SiteStep(s) ==
  \/ RespondRaise(s)
  \/ RespondStatus(s)
  \/ RespondOK(s)
  \/ ItemStep(s)
  \/ ItemRaise(s)
  \/ LoopEnd(s)
  \/ Return(s)

C16_OtherStatusFailsAtOnce ==
  \A s \in Sites :
    /\ attempts[s] <= 1
    /\ (spc[s] = "return" /\ Status(s) \notin {0, 200, 429, 502, 503, 504}) =>
         /\ attempts[s] = 1
         /\ outcome[s] = "nothing"
         /\ jobs[s] = <<>>

\* a site answered 404 and its search is about to return
C16_Witness ==
  \E s \in Sites : spc[s] = "return" /\ target[s] = <<404>> /\ jobs[s] = <<>>

\* the fingerprints of the records reported so far in this run
OutputIds == { JobId(RunOutput[i]) : i \in 1..Len(RunOutput) }

\* the fingerprints added to seen_jobs since the load of this run (the
\* file is not written before the searches are over)
AddedIds == seen_jobs \ load_seen_jobs(seen_jobs_file)

\* text contains one of the keywords kws, whatever the case of the letters
Relevant(text, kws) ==
  \E kw \in Range(kws) : Contains(Lower(kw), Lower(text))

C18_AddedAreReturned ==
  run_pc = "searching" =>
    /\ AddedIds = OutputIds
    /\ (\A s \in Sites : spc[s] = "done") =>
         AddedIds = { JobId(all_jobs[i]) : i \in 1..Len(all_jobs) }

\* all searches have returned, none went through its listing, and a
\* record accepted before an exception is in the returned list
C18_Witness ==
  /\ run_pc = "searching"
  /\ \A s \in Sites : spc[s] = "done"
  /\ ~any_found
  /\ all_jobs # <<>>
  /\ AddedIds # {}

\* the fingerprints of the list search_all_sites returned
ReturnedIds == { JobId(all_jobs[i]) : i \in 1..Len(all_jobs) }

\* C19 as stated: the Seen-Set is saved once in a run, after all searches
\* and before the notification, and a notification that failed or was
\* skipped leaves the fingerprints of the run in the file, so that no later
\* run reports these jobs again.
C19_NotifiedArePersisted ==
  /\ run_pc \in {"saved", "notified"} =>
       save_result # "none" /\ \A s \in Sites : spc[s] = "done"
  /\ notified # "none" => run_pc = "notified"
  /\ (run_pc = "notified" /\ notified \in {"failed", "skipped"}) =>
       ReturnedIds \subseteq load_seen_jobs(seen_jobs_file)

\* C19, amended: save_seen_jobs is called once in a run, after all
\* searches and before the notification; the notification, whatever it
\* comes to, leaves the file and seen_jobs alone; when the write of
\* save_seen_jobs succeeded, the file holds the fingerprints of the run
\* after the notification, failed or skipped ones included.
C19_SavedBeforeNotified ==
  /\ [][save_result' # save_result /\ save_result' # "none" =>
          /\ save_result = "none"
          /\ notified = "none"
          /\ \A s \in Sites : spc[s] = "done"]_vars
  /\ [][notified' # notified /\ notified' # "none" =>
          /\ run_pc = "saved"
          /\ save_result # "none"
          /\ UNCHANGED <<seen_jobs_file, seen_jobs>>]_vars
  /\ [](/\ run_pc \in {"saved", "notified"} =>
             save_result # "none" /\ \A s \in Sites : spc[s] = "done"
        /\ notified # "none" => run_pc = "notified"
        /\ (run_pc = "notified" /\ save_result = "saved") =>
             ReturnedIds \subseteq load_seen_jobs(seen_jobs_file))

\* the notification of a run failed and the jobs of the run are in the file
C19_Witness ==
  /\ run_pc = "notified"
  /\ notified = "failed"
  /\ save_result = "saved"
  /\ all_jobs # <<>>
  /\ ReturnedIds \subseteq seen_jobs_file.ids

RECURSIVE PostedJobs(_)
\* the jobs of the chunks posted, in the order posted
PostedJobs(posts) ==
  IF posts = <<>> THEN <<>>
  ELSE PostedJobs(SubSeq(posts, 1, Len(posts) - 1)) \o posts[Len(posts)].chunk

\* C21: send_telegram_notification posts the jobs in consecutive chunks of
\* at most 10, each job in one chunk and in list order; the first chunk
\* whose status is not 200 makes it return False and no chunk follows; it
\* returns True only if every chunk was posted with status 200; with no
\* job, no token or no chat id it returns False and posts nothing.
C21_TelegramChunks ==
  /\ \A k \in 1..Len(tg_posts) :
       /\ Len(tg_posts[k].chunk) \in 1..10
       /\ k < Len(tg_posts) => tg_posts[k].status = 200 /\ Len(tg_posts[k].chunk) = 10
  /\ PostedJobs(tg_posts) = SubSeq(tg_jobs, 1, Len(PostedJobs(tg_posts)))
  /\ (tg_posts # <<>> /\ tg_posts[Len(tg_posts)].status # 200) =>
       tg_pc = "returned" /\ tg_result = "False"
  /\ tg_result = "True" =>
       /\ tg_pc = "returned"
       /\ \A k \in 1..Len(tg_posts) : tg_posts[k].status = 200
       /\ PostedJobs(tg_posts) = tg_jobs
  /\ (tg_jobs = <<>> \/ ~tg_token \/ ~tg_chat_id) =>
       /\ tg_posts = <<>>
       /\ tg_pc = "returned" => tg_result = "False"
  /\ tg_pc = "returned" => tg_result \in {"True", "False"}

\* 21 jobs: the first chunk of 10 went through, the second was answered
\* 400, the third was not posted
C21_Witness ==
  /\ Len(tg_jobs) = 21
  /\ tg_pc = "returned"
  /\ tg_result = "False"
  /\ Len(tg_posts) = 2
  /\ tg_posts[1].status = 200
  /\ tg_posts[2].status = 400
  /\ tg_posts[2].chunk = SubSeq(tg_jobs, 11, 20)

=============================================================================
